---- MODULE Spec2Model ----
(***************************************************************************)
(* Redshift EXPLAIN visualizer (src/src/App.js).                           *)
(*                                                                         *)
(* Text is a sequence of one-character strings, so that split, trim, the   *)
(* regular expressions and parseFloat are computed character by character  *)
(* as the JavaScript does.  A JavaScript number is a record                *)
(* [nan, v]: v counts units of 1/Scale, nan marks NaN.                     *)
(***************************************************************************)
EXTENDS Integers, Sequences, FiniteSets, TLC

VARIABLES
  xmlInput,      \* useState: text of the first plan editor
  xmlInput2,     \* useState: text of the second plan editor
  theme,         \* useState: "light" | "dark"
  mermaidCode,   \* useState: the graph description ("" = <<>>)
  warnings,      \* useState: list of warnings
  nodeData,      \* useState: nodeDetailsMap of the last Generate
  selectedNode,  \* useState: details shown for the clicked node
  container,     \* containerRef.current.innerHTML
  pending,       \* mermaid.render calls awaiting their result
  downloaded,    \* the blob handed to the browser by downloadSvg
  alerted,       \* the last alert() shown
  lastParse,     \* locals of the last parseExplainToMermaid(xmlInput, theme) run
  lastDiff,      \* locals of the last comparePlans run
  lastSvg,       \* history: markup returned by the last successful render
  codeFrom,      \* history: the action and inputs that produced mermaidCode
  dataFrom       \* history: the action and inputs that produced warnings, nodeData

vars == <<xmlInput, xmlInput2, theme, mermaidCode, warnings, nodeData,
          selectedNode, container, pending, downloaded, alerted, lastParse,
          lastDiff, lastSvg, codeFrom, dataFrom>>

----------------------------------------------------------------------------
(* Characters and strings *)

NL == "\n"
BS == "\\"
Digits == {"0", "1", "2", "3", "4", "5", "6", "7", "8", "9"}

DigitVal(c) ==
  CASE c = "0" -> 0 [] c = "1" -> 1 [] c = "2" -> 2 [] c = "3" -> 3
    [] c = "4" -> 4 [] c = "5" -> 5 [] c = "6" -> 6 [] c = "7" -> 7
    [] c = "8" -> 8 [] c = "9" -> 9

\* \s of a JavaScript regular expression, and the characters trim() removes
IsSpace(c) == c \in {" ", "\t", NL}

\* [\d.] of the cost expressions
IsCostChar(c) == c \in Digits \cup {"."}

SubStr(s, from, to) == IF from > to THEN <<>> ELSE SubSeq(s, from, to)

\* s.startsWith(p) at position i (1-based)
MatchesAt(s, i, p) ==
  /\ i + Len(p) - 1 <= Len(s)
  /\ \A k \in 1..Len(p) : s[i + k - 1] = p[k]

StartsWith(s, p) == MatchesAt(s, 1, p)

\* s.includes(p)
Includes(s, p) == \E i \in 1..(Len(s) - Len(p) + 1) : MatchesAt(s, i, p)

\* length of the longest run of characters satisfying [\d.] that starts at i
RECURSIVE CostRun(_, _)
CostRun(s, i) ==
  IF i <= Len(s) /\ IsCostChar(s[i]) THEN 1 + CostRun(s, i + 1) ELSE 0

\* length of the longest run of digits that starts at i
RECURSIVE DigitRun(_, _)
DigitRun(s, i) ==
  IF i <= Len(s) /\ s[i] \in Digits THEN 1 + DigitRun(s, i + 1) ELSE 0

MapSeq(list, F(_)) == [k \in 1..Len(list) |-> F(list[k])]

\* the positions 1..Len(s) that satisfy Test, in increasing order
PositionsOf(s, Test(_)) == SelectSeq([i \in 1..Len(s) |-> i], Test)

\* the pieces of text between the line breaks at positions nl
SplitAt(text, nl) ==
  [k \in 1..(Len(nl) + 1) |->
     SubStr(text, IF k = 1 THEN 1 ELSE nl[k - 1] + 1,
                  IF k <= Len(nl) THEN nl[k] - 1 ELSE Len(text))]

\* text.split('\n')
Split(text) == SplitAt(text, PositionsOf(text, LAMBDA i : text[i] = NL))

\* line.search(/\S|$/): number of leading whitespace characters
RECURSIVE LeadingSpaces(_, _)
LeadingSpaces(s, i) ==
  IF i <= Len(s) /\ IsSpace(s[i]) THEN 1 + LeadingSpaces(s, i + 1) ELSE 0

Indentation(line) == LeadingSpaces(line, 1)

RECURSIVE TrailingSpaces(_, _)
TrailingSpaces(s, i) ==
  IF i >= 1 /\ IsSpace(s[i]) THEN 1 + TrailingSpaces(s, i - 1) ELSE 0

\* s.trim()
Trim(s) ==
  LET lead == LeadingSpaces(s, 1)
  IN  IF lead = Len(s) THEN <<>>
      ELSE SubStr(s, lead + 1, Len(s) - TrailingSpaces(s, Len(s)))

\* the lines kept by .filter(line => line.trim() !== '')
NonBlankLines(text) == SelectSeq(Split(text), LAMBDA l : Trim(l) # <<>>)

----------------------------------------------------------------------------
(* Numbers *)

\* the unit of a number's v is 1/Scale
Scale == 10 ^ 6

Num(v) == [nan |-> FALSE, v |-> v]
NaN == [nan |-> TRUE, v |-> 0]
Zero == Num(0)

JsGt(a, b) == ~a.nan /\ ~b.nan /\ a.v > b.v
JsGe(a, b) == ~a.nan /\ ~b.nan /\ a.v >= b.v
JsLt(a, b) == ~a.nan /\ ~b.nan /\ a.v < b.v
\* a === b on numbers: NaN equals nothing
JsEq(a, b) == ~a.nan /\ ~b.nan /\ a.v = b.v
JsAdd(a, b) == IF a.nan \/ b.nan THEN NaN ELSE Num(a.v + b.v)
JsSub(a, b) == IF a.nan \/ b.nan THEN NaN ELSE Num(a.v - b.v)
\* x || 0 on a number: NaN and 0 are falsy
JsOrZero(a) == IF a.nan THEN Zero ELSE a

RECURSIVE DigitsValue(_, _, _)
DigitsValue(s, from, n) ==
  IF n = 0 THEN 0
  ELSE 10 * DigitsValue(s, from, n - 1) + DigitVal(s[from + n - 1])

\* the fraction digits s[from .. from+n-1] in units of 1/Scale; w is the weight
\* of digit k, and digits finer than the unit are dropped
RECURSIVE FracValue(_, _, _, _, _)
FracValue(s, from, n, k, w) ==
  IF k > n \/ w = 0 THEN 0
  ELSE DigitVal(s[from + k - 1]) * w + FracValue(s, from, n, k + 1, w \div 10)

\* parseFloat of a string of digits and dots: the longest numeric prefix
\* <digits>[.<digits>], NaN when it holds no digit
ParseFloat(s) ==
  LET ni == DigitRun(s, 1)
      dot == ni + 1 <= Len(s) /\ s[ni + 1] = "."
      nf == IF dot THEN DigitRun(s, ni + 2) ELSE 0
  IN  IF ni = 0 /\ nf = 0 THEN NaN
      ELSE Num(DigitsValue(s, 1, ni) * Scale + FracValue(s, ni + 2, nf, 1, Scale \div 10))

\* parseInt of a string of digits
ParseInt(s) == DigitsValue(s, 1, Len(s))

\* x.toFixed(2): hundredths, rounded; "NaN" for NaN
ToFixed2(x) == IF x.nan THEN NaN ELSE Num((x.v + Scale \div 200) \div (Scale \div 100))

----------------------------------------------------------------------------
(* parseExplainToMermaid *)

CostEq == <<"c", "o", "s", "t", "=">>
ArrowMark == <<"-", ">">>

\* costRegex = /cost=([\d.]+)\\..([\d.]+)/ tried at position i: "cost=", a run
\* of [\d.], a backslash, any two characters, a run of [\d.].  The first run is
\* followed by a backslash, which [\d.] excludes, so only the longest run fits.
CostMatchesAt(s, i) ==
  /\ MatchesAt(s, i, CostEq)
  /\ LET r1 == CostRun(s, i + 5)
     IN  /\ r1 >= 1
         /\ i + 5 + r1 + 2 <= Len(s)
         /\ s[i + 5 + r1] = BS
         /\ CostRun(s, i + 5 + r1 + 3) >= 1

\* content.match(costRegex): group 2 of the leftmost match, or "none"
CostMatch(s) ==
  LET hits == {i \in 1..Len(s) : CostMatchesAt(s, i)}
  IN  IF hits = {} THEN [found |-> FALSE, group2 |-> <<>>]
      ELSE LET i == CHOOSE h \in hits : \A g \in hits : h <= g
               p == i + 5 + CostRun(s, i + 5) + 3
           IN  [found |-> TRUE, group2 |-> SubStr(s, p, p + CostRun(s, p) - 1)]

\* costMatch ? parseFloat(costMatch[2]) : 0
LineCost(content) ==
  LET m == CostMatch(content)
  IN  IF m.found THEN ParseFloat(m.group2) ELSE Zero

RECURSIVE LetterRun(_, _, _)
LetterRun(s, i, c) ==
  IF i <= Len(s) /\ s[i] = c THEN 1 + LetterRun(s, i + 1, c) ELSE 0

\* content.replace(/^->\\s*/, ''): removes "->", a backslash and the letters s
\* that follow, when content starts that way
StripArrow(content) ==
  IF StartsWith(content, ArrowMark \o <<BS>>)
  THEN SubStr(content, 4 + LetterRun(content, 4, "s"), Len(content))
  ELSE content

Last(s) == s[Len(s)]

\* the loop with > in place of >=: a node at the line's own indentation stays
\* on the stack
RECURSIVE PopStackStrict(_, _)
PopStackStrict(stack, indentation) ==
  IF Len(stack) > 0 /\ Last(stack).indentation > indentation
  THEN PopStackStrict(SubSeq(stack, 1, Len(stack) - 1), indentation)
  ELSE stack

\* while (nodeStack.length > 0 && top.indentation >= indentation) nodeStack.pop()
RECURSIVE PopStack(_, _)
PopStack(stack, indentation) ==
  IF Len(stack) > 0 /\ Last(stack).indentation >= indentation
  THEN PopStack(SubSeq(stack, 1, Len(stack) - 1), indentation)
  ELSE stack

\* nodeInfos is the sequence of node records in creation order: the node with
\* id n ("node<n>") is nodeInfos[n + 1], the order of for..in over the object
InfoAt(nodeInfos, id) == nodeInfos[id + 1]

ParseInit == [idCounter |-> 0, nodeStack |-> <<>>, nodeInfos |-> <<>>, edges |-> <<>>]

NewNode(text, totalCost) ==
  [details |-> <<text>>, totalCost |-> totalCost, children |-> <<>>]

\* lines 130-147: a "->" line opens a node under the top of the popped stack
OpenChild(st, stack, indentation, content, totalCost) ==
  [idCounter |-> st.idCounter + 1,
   nodeStack |-> stack \o <<[id |-> st.idCounter, indentation |-> indentation]>>,
   nodeInfos |->
     (IF Len(stack) > 0
      THEN [st.nodeInfos EXCEPT ![Last(stack).id + 1].children = @ \o <<st.idCounter>>]
      ELSE st.nodeInfos)
     \o <<NewNode(StripArrow(content), totalCost)>>,
   edges |-> IF Len(stack) > 0
             THEN st.edges \o <<<<Last(stack).id, st.idCounter>>>>
             ELSE st.edges]

\* lines 148-151: the first line, when it is no "->" line, opens the root
OpenRoot(st, indentation, content, totalCost) ==
  [idCounter |-> st.idCounter + 1,
   nodeStack |-> <<[id |-> st.idCounter, indentation |-> indentation]>>,
   nodeInfos |-> st.nodeInfos \o <<NewNode(content, totalCost)>>,
   edges |-> st.edges]

\* lines 152-160: any other line is added to the node on top of the stack,
\* which takes the line's cost when its own is 0
AddDetail(st, lastNodeId, content, totalCost) ==
  [st EXCEPT !.nodeInfos[lastNodeId + 1] =
     [@ EXCEPT !.details = @ \o <<content>>,
               !.totalCost = IF JsEq(@, Zero) /\ JsGt(totalCost, Zero)
                             THEN totalCost ELSE @]]

ParseContent(st, indentation, content, totalCost) ==
  IF StartsWith(content, ArrowMark)
  THEN OpenChild(st, PopStack(st.nodeStack, indentation), indentation, content, totalCost)
  ELSE IF Len(st.nodeStack) = 0
  THEN OpenRoot(st, indentation, content, totalCost)
  ELSE AddDetail(st, Last(st.nodeStack).id, content, totalCost)

\* the body of lines.forEach
ParseTrimmed(st, indentation, content) ==
  ParseContent(st, indentation, content, LineCost(content))

ParseLine(st, line) == ParseTrimmed(st, Indentation(line), Trim(line))

RECURSIVE ParseLines(_, _, _)
ParseLines(st, lines, i) ==
  IF i > Len(lines) THEN st ELSE ParseLines(ParseLine(st, lines[i]), lines, i + 1)

\* lines 164-175: exclusiveCost = totalCost - sum of the children's
\* (totalCost || 0), set to 0 when negative
ChildrenTotalCost(nodeInfos, children) ==
  LET RECURSIVE Sum(_)
      Sum(k) == IF k = 0 THEN Zero
                ELSE JsAdd(Sum(k - 1), JsOrZero(InfoAt(nodeInfos, children[k]).totalCost))
  IN  Sum(Len(children))

ExclusiveCost(nodeInfos, node) ==
  LET raw == JsSub(node.totalCost, ChildrenTotalCost(nodeInfos, node.children))
  IN  IF JsLt(raw, Zero) THEN Zero ELSE raw

WithExclusiveCosts(nodeInfos) ==
  [i \in 1..Len(nodeInfos) |->
     [details |-> nodeInfos[i].details,
      totalCost |-> nodeInfos[i].totalCost,
      children |-> nodeInfos[i].children,
      exclusiveCost |-> ExclusiveCost(nodeInfos, nodeInfos[i])]]

\* allExclusiveCosts without duplicates: [...new Set(allExclusiveCosts)]
UniqueCosts(nodeInfos) ==
  {nodeInfos[i].exclusiveCost.v : i \in {j \in 1..Len(nodeInfos) :
                                          JsGt(nodeInfos[j].exclusiveCost, Zero)}}

MaxCost(costs) == CHOOSE m \in costs : \A c \in costs : c <= m

\* exclusiveCost >= highCostThreshold, where the threshold is
\* (maxCost + secondMaxCost) / 2 with two or more distinct costs, else 0.00001
ReachesHigh(cost, costs) ==
  IF Cardinality(costs) > 1
  THEN 2 * cost.v >= MaxCost(costs) + MaxCost(costs \ {MaxCost(costs)})
  ELSE cost.v >= Scale \div 100000

\* exclusiveCost >= mediumCostThreshold = maxCost * 0.33
ReachesMedium(cost, costs) == cost.v >= (33 * MaxCost(costs) + 99) \div 100

\* lines 206-214
Color(th, cost, costs) ==
  IF ReachesHigh(cost, costs)
  THEN (IF th = "dark" THEN "#8B0000" ELSE "#ffcccc")
  ELSE IF ReachesMedium(cost, costs)
  THEN (IF th = "dark" THEN "#BDB76B" ELSE "#ffffcc")
  ELSE (IF th = "dark" THEN "#2E8B57" ELSE "#ccffcc")

\* the node declarations `${id}["${label}"]`, in id order
NodeDecls(nodeInfos) ==
  [i \in 1..Len(nodeInfos) |->
     [id |-> i - 1,
      label |-> [lines |-> nodeInfos[i].details,
                 selfCost |-> ToFixed2(nodeInfos[i].exclusiveCost)]]]

\* the style declarations, one per node with exclusiveCost > 0, in id order
StyleDecls(nodeInfos, th) ==
  LET costs == UniqueCosts(nodeInfos)
      RECURSIVE Build(_)
      Build(i) ==
        IF i = 0 THEN <<>>
        ELSE Build(i - 1) \o
             (IF JsGt(nodeInfos[i].exclusiveCost, Zero)
              THEN <<[id |-> i - 1,
                      fill |-> Color(th, nodeInfos[i].exclusiveCost, costs)]>>
              ELSE <<>>)
  IN  Build(Len(nodeInfos))

DetailsMap(nodeInfos) ==
  [i \in 1..Len(nodeInfos) |->
     [details |-> nodeInfos[i].details,
      exclusiveCost |-> nodeInfos[i].exclusiveCost]]

EmptyParse ==
  [nodes |-> <<>>, edges |-> <<>>, styles |-> <<>>, nodeDetailsMap |-> <<>>,
   nodeInfos |-> <<>>]

\* lines 199-219: what the function returns; nodeInfos is kept beside the
\* four returned fields
Emit(nodeInfos, edges, th) ==
  [nodes |-> NodeDecls(nodeInfos),
   edges |-> edges,
   styles |-> StyleDecls(nodeInfos, th),
   nodeDetailsMap |-> DetailsMap(nodeInfos),
   nodeInfos |-> nodeInfos]

EmitParsed(st, th) == Emit(WithExclusiveCosts(st.nodeInfos), st.edges, th)

ParseNonBlank(lines, th) ==
  IF Len(lines) = 0 THEN EmptyParse
  ELSE EmitParsed(ParseLines(ParseInit, lines, 1), th)

parseExplainToMermaid(text, th) == ParseNonBlank(NonBlankLines(text), th)

----------------------------------------------------------------------------
(* analyzePerformanceWarnings *)

NestedLoopText == <<"N", "e", "s", "t", "e", "d", " ", "L", "o", "o", "p">>
SeqScanText == <<"S", "e", "q", " ", "S", "c", "a", "n">>
BcastText == <<"D", "S", "_", "B", "C", "A", "S", "T">>
HashText == <<"H", "a", "s", "h">>
RowsEq == <<"r", "o", "w", "s", "=">>

RowsLimit == 10000
HashCostLimit == 50

\* content.match(/rows=(\d+)/): the leftmost "rows=" followed by a digit
RowsMatch(s) ==
  LET hits == {i \in 1..Len(s) : MatchesAt(s, i, RowsEq) /\ DigitRun(s, i + 5) >= 1}
  IN  IF hits = {} THEN [found |-> FALSE, rows |-> 0]
      ELSE LET i == CHOOSE h \in hits : \A g \in hits : h <= g
           IN  [found |-> TRUE,
                rows |-> ParseInt(SubStr(s, i + 5, i + 4 + DigitRun(s, i + 5)))]

\* a message is its fixed text and the number interpolated into it (0: none)
Warning(type, text, value, severity, nodeId) ==
  [type |-> type, message |-> [text |-> text, value |-> value],
   severity |-> severity, nodeId |-> nodeId]

\* lines 42-97 for one node: the rules that match, in the order of the code
NodeWarnings(node, nodeId) ==
  IF Len(node.details) = 0 THEN <<>>
  ELSE LET content == node.details[1]
           rowsMatch == RowsMatch(content)
       IN  (IF Includes(content, NestedLoopText)
            THEN <<Warning("warning", "Nested Loop join detected", 0, "high", nodeId)>>
            ELSE <<>>)
           \o
           (IF Includes(content, SeqScanText) /\ rowsMatch.found
               /\ rowsMatch.rows > RowsLimit
            THEN <<Warning("warning", "Large Seq Scan detected", rowsMatch.rows,
                           "medium", nodeId)>>
            ELSE <<>>)
           \o
           (IF Includes(content, BcastText)
            THEN <<Warning("info", "Broadcast operation detected", 0, "medium", nodeId)>>
            ELSE <<>>)
           \o
           (IF Includes(content, HashText)
               /\ JsGt(node.exclusiveCost, Num(HashCostLimit * Scale))
            THEN <<Warning("warning", "Expensive Hash operation detected",
                           ToFixed2(node.exclusiveCost).v, "medium", nodeId)>>
            ELSE <<>>)

\* the warnings array before the duplicates are removed
RawWarnings(nodeInfos) ==
  LET RECURSIVE Build(_)
      Build(i) == IF i = 0 THEN <<>>
                  ELSE Build(i - 1) \o NodeWarnings(nodeInfos[i], i - 1)
  IN  Build(Len(nodeInfos))

\* self.findIndex(w => w.message === warning.message)
FindIndex(self, message) ==
  CHOOSE i \in 1..Len(self) :
    /\ self[i].message = message
    /\ \A j \in 1..(i - 1) : self[j].message # message

\* the filter keeping the last warning of each message instead of the first
UniqueWarningsKeepLast(ws) ==
  LET RECURSIVE Keep(_)
      Keep(i) == IF i = 0 THEN <<>>
                 ELSE Keep(i - 1) \o
                      (IF \A j \in (i + 1)..Len(ws) : ws[j].message # ws[i].message
                       THEN <<ws[i]>> ELSE <<>>)
  IN  Keep(Len(ws))

\* warnings.filter((warning, index, self) => index === self.findIndex(...))
UniqueWarnings(ws) ==
  LET RECURSIVE Keep(_)
      Keep(i) == IF i = 0 THEN <<>>
                 ELSE Keep(i - 1) \o
                      (IF i = FindIndex(ws, ws[i].message) THEN <<ws[i]>> ELSE <<>>)
  IN  Keep(Len(ws))

analyzePerformanceWarnings(nodeInfos) == UniqueWarnings(RawWarnings(nodeInfos))

----------------------------------------------------------------------------
(* The component DynamicMermaidFromXML: state, handlers, render effect *)

EmptyText == <<>>

\* mermaidCode: "" or `graph TD\n${nodes}\n${edges}\n${styles}`
NoCode == [graph |-> FALSE, nodes |-> <<>>, edges |-> <<>>, styles |-> <<>>]
GraphCode(nodes, edges, styles) ==
  [graph |-> TRUE, nodes |-> nodes, edges |-> edges, styles |-> styles]

\* containerRef.current.innerHTML: "", the svg mermaid returned for a graph
\* description, or <pre style="color:red;">message</pre>
EmptyHtml == [kind |-> "empty", of |-> NoCode]
SvgOf(code) == [kind |-> "svg", of |-> code]
ErrorOf(code) == [kind |-> "error", of |-> code]

NoAlert == [kind |-> "none", added |-> 0, removed |-> 0, changed |-> 0, unchanged |-> 0]
UsageAlert == [kind |-> "usage", added |-> 0, removed |-> 0, changed |-> 0, unchanged |-> 0]
SummaryAlert(a, r, c, u) ==
  [kind |-> "summary", added |-> a, removed |-> r, changed |-> c, unchanged |-> u]

NoDiff ==
  [ran |-> FALSE, nodeDetailsMap1 |-> <<>>, nodeDetailsMap2 |-> <<>>,
   addedNodes |-> <<>>, removedNodes |-> <<>>, changedNodes |-> <<>>,
   unchangedNodes |-> <<>>, combinedNodes |-> <<>>, combinedEdges |-> <<>>,
   combinedStyles |-> <<>>]

Origin(by, t1, t2) == [by |-> by, input |-> t1, input2 |-> t2]

\* renders in flight at once
MaxPending == 1

\* the effect of lines 299-332, run when mermaidCode, theme or nodeData
\* changed: the container is emptied for "", else mermaid.render is awaited
RenderEffect(code, html) ==
  IF code = NoCode
  THEN /\ container' = EmptyHtml
       /\ pending' = pending
  ELSE /\ container' = html
       /\ pending' = Append(pending, code)

\* the graph description generateDiagram sets
GeneratedCode(r) ==
  IF Len(r.nodes) = 0 THEN NoCode ELSE GraphCode(r.nodes, r.edges, r.styles)

\* generateDiagram past the call of the parser
GenerateFrom(r) ==
  /\ lastParse' = r
  /\ warnings' = analyzePerformanceWarnings(r.nodeDetailsMap)
  /\ nodeData' = r.nodeDetailsMap
  /\ selectedNode' = "null"
  /\ mermaidCode' = GeneratedCode(r)
  /\ RenderEffect(mermaidCode', IF Len(r.nodes) = 0 THEN EmptyHtml ELSE container)
  /\ codeFrom' = Origin("generate", xmlInput, EmptyText)
  /\ dataFrom' = Origin("generate", xmlInput, EmptyText)

\* generateDiagram, lines 275-297, and the effect it triggers
GenerateDiagram ==
  /\ Len(pending) < MaxPending
  /\ GenerateFrom(parseExplainToMermaid(xmlInput, theme))
  /\ UNCHANGED <<xmlInput, xmlInput2, theme, downloaded, alerted, lastDiff, lastSvg>>

\* the settling without the catch of lines 323-328: a rejected render leaves
\* the container as it was
RenderSettleUncaught ==
  \E i \in 1..Len(pending) : \E ok \in BOOLEAN :
    /\ pending' = SubSeq(pending, 1, i - 1) \o SubSeq(pending, i + 1, Len(pending))
    /\ container' = IF ok THEN SvgOf(pending[i]) ELSE container
    /\ lastSvg' = IF ok THEN SvgOf(pending[i]) ELSE lastSvg
    /\ UNCHANGED <<xmlInput, xmlInput2, theme, mermaidCode, warnings, nodeData,
                   selectedNode, downloaded, alerted, lastParse, lastDiff,
                   codeFrom, dataFrom>>

\* the awaited mermaid.render of one pending call settles: lines 309-327
RenderSettle ==
  \E i \in 1..Len(pending) : \E ok \in BOOLEAN :
    /\ pending' = SubSeq(pending, 1, i - 1) \o SubSeq(pending, i + 1, Len(pending))
    /\ container' = IF ok THEN SvgOf(pending[i]) ELSE ErrorOf(pending[i])
    /\ lastSvg' = IF ok THEN SvgOf(pending[i]) ELSE lastSvg
    /\ UNCHANGED <<xmlInput, xmlInput2, theme, mermaidCode, warnings, nodeData,
                   selectedNode, downloaded, alerted, lastParse, lastDiff,
                   codeFrom, dataFrom>>

\* downloadSvg, lines 334-347
DownloadSvg ==
  /\ container # EmptyHtml
  /\ downloaded' = container
  /\ UNCHANGED <<xmlInput, xmlInput2, theme, mermaidCode, warnings, nodeData,
                 selectedNode, container, pending, alerted, lastParse, lastDiff,
                 lastSvg, codeFrom, dataFrom>>

----------------------------------------------------------------------------
(* normalizeNode and comparePlans *)

\* detailsArray.join('|')
JoinDetails(details) ==
  LET RECURSIVE Join(_)
      Join(k) == IF k = 0 THEN <<>>
                 ELSE IF k = 1 THEN details[1]
                 ELSE Join(k - 1) \o <<"|">> \o details[k]
  IN  Join(Len(details))

\* /cost=[\d.]+\.\.[\d.]+/ tried at position i: the run of [\d.] after "cost="
\* must hold two dots with a character before and after them; the greedy
\* groups then take the whole run.  The length matched, or 0.
StripMatchLen(s, i) ==
  IF ~MatchesAt(s, i, CostEq) THEN 0
  ELSE LET run == CostRun(s, i + 5)
           from == i + 5
       IN  IF \E q \in 1..(run - 3) : s[from + q] = "." /\ s[from + q + 1] = "."
           THEN 5 + run
           ELSE 0

\* position i lies inside one of the matches that start at the positions starts
InCostMatch(s, i, starts) ==
  \E k \in 1..Len(starts) : starts[k] <= i /\ i < starts[k] + StripMatchLen(s, starts[k])

\* the characters of s outside the matches
OutsideMatches(s, starts) ==
  MapSeq(PositionsOf(s, LAMBDA i : ~InCostMatch(s, i, starts)), LAMBDA i : s[i])

\* s.replace(/cost=[\d.]+\.\.[\d.]+/g, ''): a match holds no letter after
\* "cost=", so matches do not overlap and every position where the expression
\* fits starts one
StripCosts(s) ==
  OutsideMatches(s, PositionsOf(s, LAMBDA j : StripMatchLen(s, j) > 0))

\* normalizeNode of a node of a nodeDetailsMap (details is always an array)
normalizeNode(node) == StripCosts(JoinDetails(node.details))

\* a Map as the sequence of its entries in key insertion order; set() of a key
\* already present keeps its place and replaces its value
MapSet(map, key, value) ==
  IF \E k \in 1..Len(map) : map[k].key = key
  THEN [k \in 1..Len(map) |->
          IF map[k].key = key THEN [key |-> key, value |-> value] ELSE map[k]]
  ELSE Append(map, [key |-> key, value |-> value])

MapHas(map, key) == \E k \in 1..Len(map) : map[k].key = key
MapGet(map, key) == (CHOOSE e \in {map[k] : k \in 1..Len(map)} : e.key = key).value

\* lines 373-381: normalized key -> node id, over the nodes in id order
NormalizedNodes(nodeDetailsMap) ==
  LET RECURSIVE Build(_)
      Build(i) == IF i = 0 THEN <<>>
                  ELSE MapSet(Build(i - 1), normalizeNode(nodeDetailsMap[i]), i - 1)
  IN  Build(Len(nodeDetailsMap))

\* lines 397: the details arrays or the exclusive costs differ
NodeChanged(node1, node2) ==
  node1.details # node2.details \/ ~JsEq(node1.exclusiveCost, node2.exclusiveCost)

\* the pair of nodes that share the key of entry e of plan 2's map
Matched(map1, e, details1, details2) ==
  [nodeId1 |-> MapGet(map1, e.key), nodeId2 |-> e.value,
   node1 |-> details1[MapGet(map1, e.key) + 1], node2 |-> details2[e.value + 1]]

Single(e, details) == [nodeId |-> e.value, node |-> details[e.value + 1]]

\* the entry of plan 2's map has a key of plan 1's map, and the nodes differ
KeyChanged(map1, e, details1, details2) ==
  /\ MapHas(map1, e.key)
  /\ NodeChanged(details1[MapGet(map1, e.key) + 1], details2[e.value + 1])

KeyUnchanged(map1, e, details1, details2) ==
  /\ MapHas(map1, e.key)
  /\ ~NodeChanged(details1[MapGet(map1, e.key) + 1], details2[e.value + 1])

\* lines 388-414: the four lists, in the order of the loops
Classify(map1, map2, details1, details2) ==
  [addedNodes |->
     MapSeq(SelectSeq(map2, LAMBDA e : ~MapHas(map1, e.key)),
            LAMBDA e : Single(e, details2)),
   changedNodes |->
     MapSeq(SelectSeq(map2, LAMBDA e : KeyChanged(map1, e, details1, details2)),
            LAMBDA e : Matched(map1, e, details1, details2)),
   unchangedNodes |->
     MapSeq(SelectSeq(map2, LAMBDA e : KeyUnchanged(map1, e, details1, details2)),
            LAMBDA e : Matched(map1, e, details1, details2)),
   removedNodes |->
     MapSeq(SelectSeq(map1, LAMBDA e : ~MapHas(map2, e.key)),
            LAMBDA e : Single(e, details1))]

\* `${nodeId}["<prefix>: ${node.details[0]}"]` and its style line
DiffDecl(prefix, nodeId, node) ==
  [id |-> nodeId, label |-> [prefix |-> prefix, line |-> node.details[1]]]
DiffStyle(nodeId, fill, stroke) == [id |-> nodeId, fill |-> fill, stroke |-> stroke]

\* [...new Set(edges)]: the first occurrence of each edge, in order
DistinctEdges(edges) ==
  LET RECURSIVE Keep(_)
      Keep(i) == IF i = 0 THEN <<>>
                 ELSE Keep(i - 1) \o
                      (IF \E j \in 1..(i - 1) : edges[j] = edges[i] THEN <<>>
                       ELSE <<edges[i]>>)
  IN  Keep(Len(edges))

\* lines 416-441 and the locals of comparePlans past its guard
DiffRecord(c, map1, map2, edges1, edges2) ==
  [ran |-> TRUE,
   nodeDetailsMap1 |-> map1, nodeDetailsMap2 |-> map2,
   addedNodes |-> c.addedNodes, removedNodes |-> c.removedNodes,
   changedNodes |-> c.changedNodes, unchangedNodes |-> c.unchangedNodes,
   combinedNodes |->
     MapSeq(c.removedNodes, LAMBDA e : DiffDecl("Removed", e.nodeId, e.node))
     \o MapSeq(c.unchangedNodes, LAMBDA e : DiffDecl("Unchanged", e.nodeId1, e.node1))
     \o MapSeq(c.addedNodes, LAMBDA e : DiffDecl("Added", e.nodeId, e.node))
     \o MapSeq(c.changedNodes, LAMBDA e : DiffDecl("Changed", e.nodeId2, e.node2)),
   combinedStyles |->
     MapSeq(c.removedNodes, LAMBDA e : DiffStyle(e.nodeId, "#ffcccc", "#f44336"))
     \o MapSeq(c.unchangedNodes, LAMBDA e : DiffStyle(e.nodeId1, "#ccffcc", "#4CAF50"))
     \o MapSeq(c.addedNodes, LAMBDA e : DiffStyle(e.nodeId, "#cce0ff", "#2196F3"))
     \o MapSeq(c.changedNodes, LAMBDA e : DiffStyle(e.nodeId2, "#ffffcc", "#FFC107")),
   combinedEdges |-> DistinctEdges(edges1 \o edges2)]

DiffOfParses(r1, r2) ==
  DiffRecord(Classify(NormalizedNodes(r1.nodeDetailsMap),
                      NormalizedNodes(r2.nodeDetailsMap),
                      r1.nodeDetailsMap, r2.nodeDetailsMap),
             r1.nodeDetailsMap, r2.nodeDetailsMap, r1.edges, r2.edges)

DiffOf(text1, text2, th) ==
  DiffOfParses(parseExplainToMermaid(text1, th), parseExplainToMermaid(text2, th))

\* comparePlans past its guard: setMermaidCode, the effect when the graph
\* description changed, and the summary alert
CompareFrom(d) ==
  /\ lastDiff' = d
  /\ mermaidCode' = GraphCode(d.combinedNodes, d.combinedEdges, d.combinedStyles)
  /\ IF mermaidCode' # mermaidCode THEN RenderEffect(mermaidCode', container)
     ELSE UNCHANGED <<container, pending>>
  /\ alerted' = SummaryAlert(Len(d.addedNodes), Len(d.removedNodes),
                             Len(d.changedNodes), Len(d.unchangedNodes))
  /\ codeFrom' = Origin("compare", xmlInput, xmlInput2)

\* comparePlans, lines 364-452
ComparePlans ==
  IF xmlInput = EmptyText \/ xmlInput2 = EmptyText
  THEN /\ alerted' = UsageAlert
       /\ UNCHANGED <<xmlInput, xmlInput2, theme, mermaidCode, warnings, nodeData,
                      selectedNode, container, pending, downloaded, lastParse,
                      lastDiff, lastSvg, codeFrom, dataFrom>>
  ELSE /\ Len(pending) < MaxPending
       /\ CompareFrom(DiffOf(xmlInput, xmlInput2, theme))
       /\ UNCHANGED <<xmlInput, xmlInput2, theme, warnings, nodeData, selectedNode,
                      downloaded, lastParse, lastSvg, dataFrom>>

----------------------------------------------------------------------------
(* Plan texts *)

\* "XN Hash Join DS_BCAST_INNER  (cost=0.00..118.00 rows=1000 width=8)"
DefaultLine1 ==
  <<"X", "N", " ", "H", "a", "s", "h", " ", "J", "o", "i", "n", " ", "D", "S",
    "_", "B", "C", "A", "S", "T", "_", "I", "N", "N", "E", "R", " ", " ", "(",
    "c", "o", "s", "t", "=", "0", ".", "0", "0", ".", ".", "1", "1", "8", ".",
    "0", "0", " ", "r", "o", "w", "s", "=", "1", "0", "0", "0", " ", "w", "i",
    "d", "t", "h", "=", "8", ")">>

\* "  Hash Cond: (a.id = b.id)"
DefaultLine2 ==
  <<" ", " ", "H", "a", "s", "h", " ", "C", "o", "n", "d", ":", " ", "(", "a",
    ".", "i", "d", " ", "=", " ", "b", ".", "i", "d", ")">>

\* "  ->  XN Seq Scan on a  (cost=0.00..59.00 rows=1000 width=4)"
DefaultLine3 ==
  <<" ", " ", "-", ">", " ", " ", "X", "N", " ", "S", "e", "q", " ", "S", "c",
    "a", "n", " ", "o", "n", " ", "a", " ", " ", "(", "c", "o", "s", "t", "=",
    "0", ".", "0", "0", ".", ".", "5", "9", ".", "0", "0", " ", "r", "o", "w",
    "s", "=", "1", "0", "0", "0", " ", "w", "i", "d", "t", "h", "=", "4", ")">>

\* "  ->  XN Hash  (cost=0.00..59.00 rows=1000 width=4)"
DefaultLine4 ==
  <<" ", " ", "-", ">", " ", " ", "X", "N", " ", "H", "a", "s", "h", " ", " ",
    "(", "c", "o", "s", "t", "=", "0", ".", "0", "0", ".", ".", "5", "9", ".",
    "0", "0", " ", "r", "o", "w", "s", "=", "1", "0", "0", "0", " ", "w", "i",
    "d", "t", "h", "=", "4", ")">>

\* "        ->  XN Seq Scan on b  (cost=0.00..59.00 rows=1000 width=4)"
DefaultLine5 ==
  <<" ", " ", " ", " ", " ", " ", " ", " ", "-", ">", " ", " ", "X", "N", " ",
    "S", "e", "q", " ", "S", "c", "a", "n", " ", "o", "n", " ", "b", " ", " ",
    "(", "c", "o", "s", "t", "=", "0", ".", "0", "0", ".", ".", "5", "9", ".",
    "0", "0", " ", "r", "o", "w", "s", "=", "1", "0", "0", "0", " ", "w", "i",
    "d", "t", "h", "=", "4", ")">>

\* "Hash DS_BCAST (cost=0.00..9.00)"
BcastBody ==
  <<"H", "a", "s", "h", " ", "D", "S", "_", "B", "C", "A", "S", "T", " ", "(",
    "c", "o", "s", "t", "=", "0", ".", "0", "0", ".", ".", "9", ".", "0", "0",
    ")">>

\* "Hash DS_BCAST (cost=0.00..5.00)"
Bcast5Body ==
  <<"H", "a", "s", "h", " ", "D", "S", "_", "B", "C", "A", "S", "T", " ", "(",
    "c", "o", "s", "t", "=", "0", ".", "0", "0", ".", ".", "5", ".", "0", "0",
    ")">>

\* "Seq Scan (cost=0\..5.00 rows=20000)"
SeqScanBody ==
  <<"S", "e", "q", " ", "S", "c", "a", "n", " ", "(", "c", "o", "s", "t", "=",
    "0", "\\", ".", ".", "5", ".", "0", "0", " ", "r", "o", "w", "s", "=",
    "2", "0", "0", "0", "0", ")">>

\* "Hash (cost=0\..60.00)"
HashBody ==
  <<"H", "a", "s", "h", " ", "(", "c", "o", "s", "t", "=", "0", "\\", ".",
    ".", "6", "0", ".", "0", "0", ")">>

\* "Nested Loop (cost=0\..0.000001)"
NestedLoopBody ==
  <<"N", "e", "s", "t", "e", "d", " ", "L", "o", "o", "p", " ", "(", "c", "o",
    "s", "t", "=", "0", "\\", ".", ".", "0", ".", "0", "0", "0", "0", "0",
    "1", ")">>

\* "Sort (cost=0\...)"
MalformedBody ==
  <<"S", "o", "r", "t", " ", "(", "c", "o", "s", "t", "=", "0", "\\", ".",
    ".", ".", ")">>

\* "Filter: x"
FilterBody ==
  <<"F", "i", "l", "t", "e", "r", ":", " ", "x">>

\* "Sort"
SortBody ==
  <<"S", "o", "r", "t">>

Spaces(n) == [k \in 1..n |-> " "]

\* a plan line: indentation, the child marker "->  " or none, the line's text
Line(indent, arrow, body) ==
  Spaces(indent) \o (IF arrow THEN ArrowMark \o Spaces(2) ELSE <<>>) \o body

\* lines joined by "\n"
JoinLines(lines) ==
  LET RECURSIVE Join(_)
      Join(k) == IF k = 0 THEN <<>>
                 ELSE IF k = 1 THEN lines[1]
                 ELSE Join(k - 1) \o <<NL>> \o lines[k]
  IN  Join(Len(lines))

\* the initial value of xmlInput, lines 224-228
DefaultPlan ==
  JoinLines(<<DefaultLine1, DefaultLine2, DefaultLine3, DefaultLine4, DefaultLine5>>)

\* a text of blanks only: not the empty string, and it holds no plan line
BlankText == <<" ", NL, " ">>

\* a second plan: a Hash whose cost annotation the parser reads, over a scan
OtherPlan == JoinLines(<<HashBody, Line(2, TRUE, SeqScanBody), Line(2, TRUE, SeqScanBody)>>)

\* what the user types into the first and the second editor
EditorTexts == {EmptyText, DefaultPlan}
EditorTexts2 == {EmptyText, BlankText, OtherPlan}

Indents == {0, 2, 4}
Themes == {"light", "dark"}
MaxLines == 4
MaxCostLines == 3
MaxDiffLines == 2

TextsOver(first, rest, maxLen) ==
  UNION {{JoinLines(<<f>> \o tail) : f \in first, tail \in [1..n -> rest]}
         : n \in 0..(maxLen - 1)}

\* plans that vary the tree: every indentation and line kind, one line text
TreeLines == {Line(i, a, SortBody) : i \in Indents, a \in BOOLEAN}
TreeTexts == TextsOver(TreeLines, TreeLines, MaxLines)

\* plans that vary the costs and the operators under one root
CostBodies == {BcastBody, SeqScanBody, HashBody, NestedLoopBody, MalformedBody, FilterBody}
CostTexts ==
  TextsOver({Line(0, FALSE, b) : b \in CostBodies},
            {Line(2, a, b) : a \in BOOLEAN, b \in CostBodies}, MaxCostLines)

\* the plans compared with each other
DiffBodies == {BcastBody, Bcast5Body, HashBody, MalformedBody}
DiffTexts ==
  {EmptyText, BlankText} \cup
  TextsOver({Line(0, TRUE, b) : b \in DiffBodies},
            {Line(2, TRUE, b) : b \in DiffBodies} \cup {Line(2, FALSE, FilterBody)},
            MaxDiffLines)

----------------------------------------------------------------------------
(* Specifications *)

\* the editors' onValueChange
EditInput ==
  /\ \E t \in EditorTexts : xmlInput' = t
  /\ UNCHANGED <<xmlInput2, theme, mermaidCode, warnings, nodeData, selectedNode,
                 container, pending, downloaded, alerted, lastParse, lastDiff,
                 lastSvg, codeFrom, dataFrom>>

EditInput2 ==
  /\ \E t \in EditorTexts2 : xmlInput2' = t
  /\ UNCHANGED <<xmlInput, theme, mermaidCode, warnings, nodeData, selectedNode,
                 container, pending, downloaded, alerted, lastParse, lastDiff,
                 lastSvg, codeFrom, dataFrom>>

\* the component's state after the first render, for given editor contents
InitWith(t1, t2, th) ==
  /\ xmlInput = t1
  /\ xmlInput2 = t2
  /\ theme = th
  /\ mermaidCode = NoCode
  /\ warnings = <<>>
  /\ nodeData = <<>>
  /\ selectedNode = "null"
  /\ container = EmptyHtml
  /\ pending = <<>>
  /\ downloaded = EmptyHtml
  /\ alerted = NoAlert
  /\ lastParse = EmptyParse
  /\ lastDiff = NoDiff
  /\ lastSvg = EmptyHtml
  /\ codeFrom = Origin("init", EmptyText, EmptyText)
  /\ dataFrom = Origin("init", EmptyText, EmptyText)

\* lines 224-235
Init == InitWith(DefaultPlan, EmptyText, "light")

Next ==
  \/ EditInput
  \/ EditInput2
  \/ GenerateDiagram
  \/ ComparePlans
  \/ RenderSettle
  \/ DownloadSvg

Spec == Init /\ [][Next]_vars

\* Generate Diagram on every plan text of the bounded sets, in either theme
InitParse ==
  \/ \E t \in TreeTexts \cup {EmptyText, BlankText, DefaultPlan} :
       InitWith(t, EmptyText, "light")
  \/ \E t \in CostTexts : \E th \in Themes : InitWith(t, EmptyText, th)

NextParse == GenerateDiagram

SpecParse == InitParse /\ [][NextParse]_vars

\* Compare on every pair of plan texts of the bounded set
InitDiff == \E t1 \in DiffTexts : \E t2 \in DiffTexts : InitWith(t1, t2, "light")

NextDiff == ComparePlans

SpecDiff == InitDiff /\ [][NextDiff]_vars

----------------------------------------------------------------------------
(* Properties of the plan parser, checked under SpecParse *)

\* Generate Diagram has run on the text in the first editor
Generated == codeFrom.by = "generate" /\ codeFrom.input = xmlInput

PlanLines == NonBlankLines(xmlInput)

\* of every line: whether its text starts with "->", and its indentation
LineInfo(lines) ==
  [k \in 1..Len(lines) |->
     [arrow |-> StartsWith(Trim(lines[k]), ArrowMark),
      indentation |-> Indentation(lines[k])]]

PlanInfo == LineInfo(PlanLines)

\* line k starts a node: the first line, or a line whose text starts with "->"
OpensNode(info, k) == k = 1 \/ info[k].arrow

\* the id of the node that line k starts: nodes are numbered in line order
NodeOfLine(info, k) == Cardinality({j \in 1..k : OpensNode(info, j)}) - 1

\* the earlier node-starting lines indented strictly less than line k
Shallower(info, k) ==
  {j \in 1..(k - 1) : OpensNode(info, j) /\ info[j].indentation < info[k].indentation}

NearestShallower(info, k) ==
  CHOOSE j \in Shallower(info, k) : \A i \in Shallower(info, k) : i <= j

EdgesInto(id) == {e \in 1..Len(lastParse.edges) : lastParse.edges[e][2] = id}

\* the ids of the "->" lines whose nearest shallower line is line p, in line order
ChildrenOfLine(info, p) ==
  MapSeq(PositionsOf(info,
                     LAMBDA k : info[k].arrow /\ Shallower(info, k) # {}
                                /\ NearestShallower(info, k) = p),
         LAMBDA k : NodeOfLine(info, k))

ParentIsNearestShallower(info) ==
  /\ \A k \in 1..Len(info) :
       info[k].arrow =>
         IF Shallower(info, k) = {} THEN EdgesInto(NodeOfLine(info, k)) = {}
         ELSE /\ Cardinality(EdgesInto(NodeOfLine(info, k))) = 1
              /\ \A e \in EdgesInto(NodeOfLine(info, k)) :
                   lastParse.edges[e][1] = NodeOfLine(info, NearestShallower(info, k))
  /\ \A k \in 1..Len(info) :
       OpensNode(info, k) =>
         lastParse.nodeInfos[NodeOfLine(info, k) + 1].children = ChildrenOfLine(info, k)

\* C1: every "->" line's node is attached by exactly one edge to the node of
\* the nearest earlier node-starting line (the first line or a "->" line)
\* indented strictly less, and to no node when there is none; each node's
\* children are those nodes in line order.  Lines at the same indentation and
\* lines that start no node are never the parent.
C1_ParentIsNearestShallower == Generated => ParentIsNearestShallower(PlanInfo)

SiblingAndDetailBetween(info) ==
  \E k \in 1..Len(info) :
    /\ info[k].arrow /\ Shallower(info, k) # {}
    /\ \E s \in (NearestShallower(info, k) + 1)..(k - 1) :
         info[s].arrow /\ info[s].indentation = info[k].indentation
    /\ \E c \in (NearestShallower(info, k) + 1)..(k - 1) : ~OpensNode(info, c)
    /\ <<NodeOfLine(info, NearestShallower(info, k)), NodeOfLine(info, k)>>
         \in {lastParse.edges[e] : e \in 1..Len(lastParse.edges)}

\* a "->" line whose parent is not the line before it: a "->" line at its own
\* indentation and a line that starts no node lie between the two
C1_Witness == Generated /\ SiblingAndDetailBetween(PlanInfo)

\* the nodes that no edge points to
Parentless == {id \in 0..(Len(lastParse.nodeInfos) - 1) : EdgesInto(id) = {}}

\* every node but the first is the target of exactly one edge
OneRoot ==
  /\ Parentless = {0}
  /\ \A id \in 1..(Len(lastParse.nodeInfos) - 1) : Cardinality(EdgesInto(id)) = 1

\* every "->" line after the first line is indented deeper than the first line
DeeperThanFirst(info) ==
  \A k \in 2..Len(info) : info[k].arrow => info[k].indentation > info[1].indentation

AllDeeperThanFirst == DeeperThanFirst(PlanInfo)

OneRootIffDeeper(info) == Len(info) > 0 => (OneRoot <=> DeeperThanFirst(info))

\* C4 as claimed: for every non-empty text, whatever its first line and its
\* indentations, exactly one node has no parent
C4_AlwaysOneRoot == (Generated /\ Len(PlanLines) > 0) => OneRoot

\* C4 as amended: exactly one node has no parent if and only if every "->"
\* line after the first line is indented deeper than the first line
C4_OneRootIffDeeper == Generated => OneRootIffDeeper(PlanInfo)

\* a plan of three nodes or more under one root, reached through a sibling
C4_Witness ==
  /\ Generated
  /\ Len(lastParse.nodeInfos) >= 3
  /\ AllDeeperThanFirst
  /\ OneRoot
  /\ \E k \in 3..Len(PlanLines) :
       PlanInfo[k].arrow /\ PlanInfo[k - 1].arrow

\* the sum of the inclusive costs of a node's children, in units of 1/Scale
ChildrenSum(node) ==
  LET RECURSIVE Sum(_)
      Sum(k) == IF k = 0 THEN 0
                ELSE Sum(k - 1) + lastParse.nodeInfos[node.children[k] + 1].totalCost.v
  IN  Sum(Len(node.children))

\* C2: after parsing, every node has 0 <= exclusiveCost <= inclusive cost and
\* exclusiveCost = max(0, inclusive cost - sum of the children's inclusive
\* costs), all of them numbers
C2_ExclusiveCostClamped ==
  Generated =>
    \A i \in 1..Len(lastParse.nodeInfos) :
      LET node == lastParse.nodeInfos[i]
          rest == node.totalCost.v - ChildrenSum(node)
      IN  /\ JsGe(node.exclusiveCost, Zero)
          /\ JsGe(node.totalCost, node.exclusiveCost)
          /\ JsEq(node.exclusiveCost, Num(IF rest < 0 THEN 0 ELSE rest))

\* the length of the number <digits>[.<digits>] that starts at i, or 0
FloatLen(s, i) ==
  LET ni == DigitRun(s, i)
      nf == IF i + ni <= Len(s) /\ s[i + ni] = "." THEN DigitRun(s, i + ni + 1) ELSE 0
  IN  IF ni = 0 THEN 0 ELSE IF nf > 0 THEN ni + 1 + nf ELSE ni

\* s holds cost=A..B at position i: two numbers with exactly two dots between
AnnotationAt(s, i) ==
  /\ MatchesAt(s, i, CostEq)
  /\ FloatLen(s, i + 5) > 0
  /\ MatchesAt(s, i + 5 + FloatLen(s, i + 5), <<".", ".">>)
  /\ FloatLen(s, i + 7 + FloatLen(s, i + 5)) > 0

HasAnnotation(s) == \E i \in 1..Len(s) : AnnotationAt(s, i)

\* B of the first cost=A..B of s
AnnotatedCost(s) ==
  LET i == CHOOSE h \in 1..Len(s) :
             AnnotationAt(s, h) /\ \A g \in 1..(h - 1) : ~AnnotationAt(s, g)
      from == i + 7 + FloatLen(s, i + 5)
  IN  ParseFloat(SubStr(s, from, from + FloatLen(s, from) - 1))

\* the lines of the node that line k starts: line k and the lines after it up
\* to the next line that starts a node
LinesOfNode(info, k) ==
  {j \in k..Len(info) : \A m \in (k + 1)..j : ~OpensNode(info, m)}

CostIsSecondNumber(lines, info) ==
  \A k \in 1..Len(lines) :
    OpensNode(info, k) =>
      /\ (HasAnnotation(lines[k]) /\ AnnotatedCost(lines[k]).v > 0)
           => JsEq(lastParse.nodeInfos[NodeOfLine(info, k) + 1].totalCost,
                   AnnotatedCost(lines[k]))
      /\ (\A j \in LinesOfNode(info, k) : ~HasAnnotation(lines[j]))
           => JsEq(lastParse.nodeInfos[NodeOfLine(info, k) + 1].totalCost, Zero)

\* C3: the node of a line that carries cost=A..B with B > 0 has inclusive cost
\* B, and a node none of whose lines carries cost=A..B has inclusive cost 0
C3_CostIsSecondNumber == Generated => CostIsSecondNumber(PlanLines, PlanInfo)

----------------------------------------------------------------------------
(* Properties of the warnings and of the colours, checked under SpecParse *)

\* the place in raw of the first warning with the message
FirstRaw(raw, message) ==
  CHOOSE k \in 1..Len(raw) :
    raw[k].message = message /\ \A j \in 1..(k - 1) : raw[j].message # message

\* ws is raw with every warning dropped whose message an earlier one carries
FirstOccurrenceKept(ws, raw) ==
  /\ \A i, j \in 1..Len(ws) : ws[i].message = ws[j].message => i = j
  /\ \A k \in 1..Len(raw) : \E i \in 1..Len(ws) : ws[i].message = raw[k].message
  /\ \A i \in 1..Len(ws) :
       /\ \E k \in 1..Len(raw) : raw[k].message = ws[i].message
       /\ ws[i] = raw[FirstRaw(raw, ws[i].message)]
  /\ \A i, j \in 1..Len(ws) :
       i < j => FirstRaw(raw, ws[i].message) < FirstRaw(raw, ws[j].message)

\* C6: the stored warnings hold no message twice; every message the rules
\* matched on the stored node map is there; each warning is the first one
\* matched with its message, node id included; and the warnings stand in the
\* order of those first matches
C6_FirstOccurrenceKept ==
  Generated => FirstOccurrenceKept(warnings, RawWarnings(nodeData))

RepeatedAfterAnother(raw) ==
  \E j, k \in 1..Len(raw) :
    /\ 1 < j /\ j < k
    /\ raw[j].message = raw[k].message
    /\ raw[j].nodeId # raw[k].nodeId
    /\ raw[1].message # raw[j].message

\* two nodes matched the same message after another message was matched, and
\* one warning was dropped
C6_Witness ==
  /\ Generated
  /\ Len(warnings) >= 2
  /\ RepeatedAfterAnother(RawWarnings(nodeData))

\* the nodes with a positive exclusive cost
PositiveNodes ==
  {i \in 1..Len(lastParse.nodeInfos) : JsGt(lastParse.nodeInfos[i].exclusiveCost, Zero)}

HighColour == IF theme = "dark" THEN "#8B0000" ELSE "#ffcccc"

\* C7: when exactly one node has a positive exclusive cost, however small,
\* its style declaration carries the high colour of the theme
C7_SinglePositiveIsHigh ==
  (Generated /\ Cardinality(PositiveNodes) = 1) =>
    \A i \in PositiveNodes :
      \E k \in 1..Len(lastParse.styles) :
        lastParse.styles[k].id = i - 1 /\ lastParse.styles[k].fill = HighColour

----------------------------------------------------------------------------
(* Properties of comparePlans, checked under SpecDiff and Spec *)

\* C5: comparing a plan with itself reports no added, removed or changed node
\* and as many unchanged nodes as the plan has nodes
C5_SelfCompareAllUnchanged ==
  (alerted.kind = "summary" /\ lastDiff.ran /\ xmlInput = xmlInput2) =>
    /\ alerted.added = 0
    /\ alerted.removed = 0
    /\ alerted.changed = 0
    /\ alerted.unchanged = Len(lastDiff.nodeDetailsMap1)

\* the text holds no plan: no line of it is left after the blank ones are
\* dropped, so that it parses to no node
HoldsNoPlan(text) == Len(NonBlankLines(text)) = 0

\* C8: Compare with an input that holds no plan reports the usage error and
\* leaves the graph description, the warnings and the node details as they were
C8_EmptyInputRefused ==
  [][(ComparePlans /\ (HoldsNoPlan(xmlInput) \/ HoldsNoPlan(xmlInput2))) =>
       /\ alerted' = UsageAlert
       /\ mermaidCode' = mermaidCode
       /\ warnings' = warnings
       /\ nodeData' = nodeData]_vars

\* C9: the warnings and the node details were produced by the action, and from
\* the input, that produced the graph description on display
C9_DataOfDisplayedGraph ==
  codeFrom.by # "init" => dataFrom = codeFrom

\* C10: what Export writes is the markup of the last render that succeeded
C10_ExportsLastSuccessfulRender ==
  [][DownloadSvg => downloaded' = lastSvg]_vars

----------------------------------------------------------------------------
(* Properties of the render step, checked under SpecRender *)

\* the handlers that change what is rendered, and the settling of the renders
NextRender ==
  \/ EditInput
  \/ EditInput2
  \/ GenerateDiagram
  \/ ComparePlans
  \/ RenderSettle

\* the promise of the render that has waited longest settles
SettleOldest == RenderSettle /\ pending' = Tail(pending)

\* every awaited mermaid.render settles
SpecRender == Init /\ [][NextRender]_vars /\ WF_vars(SettleOldest)

\* Generate Diagram produced the graph description on display from a plan
\* with a node
GeneratedGraph == codeFrom.by = "generate" /\ mermaidCode # NoCode

\* a render settled in this step: the container then holds the markup or the
\* error text of that render, and the state of the component is as it was
SettledInto ==
  Len(pending') < Len(pending) =>
    /\ \E i \in 1..Len(pending) : container' \in {SvgOf(pending[i]), ErrorOf(pending[i])}
    /\ UNCHANGED <<mermaidCode, warnings, nodeData, alerted>>

\* C11: once Generate Diagram has produced a graph description, the container
\* eventually is not empty; a render that settles leaves in it the markup it
\* returned or, when it failed, the error text, and changes nothing else
C11_ContainerEventuallyFilled ==
  /\ GeneratedGraph ~> (container.kind \in {"svg", "error"})
  /\ [][SettledInto]_vars

\* the render of a generated graph failed before any render succeeded, and
\* the container holds its error text
C11_Witness ==
  /\ GeneratedGraph
  /\ pending = <<>>
  /\ lastSvg = EmptyHtml
  /\ container = ErrorOf(mermaidCode)

----------------------------------------------------------------------------
(* Properties of the four lists of comparePlans, checked under SpecDiff *)

\* the normalized key of every node of a node map, in id order
KeysOf(map) == [i \in 1..Len(map) |-> normalizeNode(map[i])]

\* the node of the map that the key stands for: the last one that has it
NodeOfKey(map, keys, key) ==
  map[CHOOSE i \in 1..Len(map) :
        keys[i] = key /\ \A j \in (i + 1)..Len(map) : keys[j] # key]

\* how many entries of the list are about the node
CountOf(nodes, node) == Cardinality({e \in 1..Len(nodes) : nodes[e] = node})

\* the nodes of plan 2 in the list of the changed or of the unchanged nodes
SecondNodes(pairs) == MapSeq(pairs, LAMBDA e : e.node2)
FirstNodes(pairs) == MapSeq(pairs, LAMBDA e : e.node1)
SingleNodes(singles) == MapSeq(singles, LAMBDA e : e.node)

\* the two nodes have the same detail lines in the same order and the same
\* exclusive cost
SameNode(node1, node2) ==
  node1.details = node2.details /\ node1.exclusiveCost = node2.exclusiveCost

\* the key of plan 2 is in the list the claim names for it, once, and in no
\* other list
PlacedSecond(d, keys1, keys2, key) ==
  LET node2 == NodeOfKey(d.nodeDetailsMap2, keys2, key)
      inFirst == \E i \in 1..Len(keys1) : keys1[i] = key
      same == inFirst /\ SameNode(NodeOfKey(d.nodeDetailsMap1, keys1, key), node2)
  IN  /\ CountOf(SingleNodes(d.addedNodes), node2) = (IF inFirst THEN 0 ELSE 1)
      /\ CountOf(SecondNodes(d.unchangedNodes), node2) = (IF same THEN 1 ELSE 0)
      /\ CountOf(SecondNodes(d.changedNodes), node2)
           = (IF inFirst /\ ~same THEN 1 ELSE 0)

\* the key of plan 1 is in the list of the removed nodes, once, exactly when
\* plan 2 has no node with it, and else once among the changed and unchanged
PlacedFirst(d, keys1, keys2, key) ==
  LET node1 == NodeOfKey(d.nodeDetailsMap1, keys1, key)
      inSecond == \E i \in 1..Len(keys2) : keys2[i] = key
  IN  /\ CountOf(SingleNodes(d.removedNodes), node1) = (IF inSecond THEN 0 ELSE 1)
      /\ CountOf(FirstNodes(d.unchangedNodes), node1)
           + CountOf(FirstNodes(d.changedNodes), node1) = (IF inSecond THEN 1 ELSE 0)

Range(f) == {f[i] : i \in 1..Len(f)}

KeysPlaced(d, keys1, keys2) ==
  /\ \A key \in Range(keys2) : PlacedSecond(d, keys1, keys2, key)
  /\ \A key \in Range(keys1) : PlacedFirst(d, keys1, keys2, key)
  /\ Len(d.addedNodes) + Len(d.changedNodes) + Len(d.unchangedNodes)
       = Cardinality(Range(keys2))
  /\ Len(d.removedNodes) + Len(d.changedNodes) + Len(d.unchangedNodes)
       = Cardinality(Range(keys1))

\* C12: after Compare on two plans with nodes, every distinct key of plan 2 is
\* once in exactly one of added, changed, unchanged, and every distinct key of
\* plan 1 once in exactly one of removed, changed, unchanged: added when plan 1
\* lacks the key, removed when plan 2 lacks it, unchanged when the two nodes
\* have equal detail lines and equal exclusive cost, changed otherwise
C12_KeysClassified ==
  (lastDiff.ran /\ Len(lastDiff.nodeDetailsMap1) > 0 /\ Len(lastDiff.nodeDetailsMap2) > 0)
    => KeysPlaced(lastDiff, KeysOf(lastDiff.nodeDetailsMap1),
                  KeysOf(lastDiff.nodeDetailsMap2))

\* the identifiers of the declarations in the lists made from one plan
DeclaredFor(d, prefixes) ==
  {d.combinedNodes[i].id : i \in {j \in 1..Len(d.combinedNodes) :
                                    d.combinedNodes[j].label.prefix \in prefixes}}

\* C13: in the combined graph of Compare on two plans with nodes, no two node
\* declarations carry the same identifier, and no identifier declared for a
\* node of plan 1 (removed, unchanged) is declared for a node of plan 2
\* (added, changed)
C13_DistinctIdentifiers ==
  (lastDiff.ran /\ Len(lastDiff.nodeDetailsMap1) > 0 /\ Len(lastDiff.nodeDetailsMap2) > 0)
    => /\ \A i, j \in 1..Len(lastDiff.combinedNodes) :
            lastDiff.combinedNodes[i].id = lastDiff.combinedNodes[j].id => i = j
       /\ DeclaredFor(lastDiff, {"Removed", "Unchanged"})
            \cap DeclaredFor(lastDiff, {"Added", "Changed"}) = {}

====
